---- MODULE Spec2Model ----
(***************************************************************************)
(* LearnMon (src/main.cpp): a command-line vocabulary trainer.  The model  *)
(* covers the lesson file loader (read_lesson_from_file) and the three     *)
(* lesson engines (serve_spelling_lesson, serve_multiple_choice_lesson,    *)
(* serve_hangman_lesson).                                                  *)
(*                                                                         *)
(* A std::string is a sequence of bytes (0..255); string literals are      *)
(* written here as their UTF-8 bytes, with the text in a comment.          *)
(***************************************************************************)
EXTENDS Integers, Sequences, FiniteSets, TLC

\* ------------------------------------------------------------------------
\* Bounds of the model
\* ------------------------------------------------------------------------

\* Only the first MaxLetters entries of mongolian_letters are drawn as
\* replacement letters.
MaxLetters == 2

\* A lesson file holds at most MaxLines lines.
MaxLines == 3

\* The longest byte string handed to split_word_to_chars on its own.
MaxBytes == 4

\* The most lines of a lesson file that main reads and then serves.
MaxLessons == 2

\* ------------------------------------------------------------------------
\* Constants of the program
\* ------------------------------------------------------------------------

\* The field delimiter of the lesson file: ';'.
delimiter == 59

\* Distractors per multiple-choice session.
num_distractors == 3

\* Limits of the number of substitutions in one distractor.
min_changes == 2
max_changes == 4

\* Largest lesson number (uint8_t).
max_lesson_number == 255

\* ------------------------------------------------------------------------
\* String literals of the program
\* ------------------------------------------------------------------------

quit_str == <<113, 117, 105, 116>>      \* "quit"
hint_str == <<104, 105, 110, 116>>      \* "hint"
blank_str == <<95>>                     \* "_"
space_str == <<32>>                     \* " "

\* The alphabet of serve_multiple_choice_lesson, in source order.
mongolian_letters ==
    << <<208, 176>>, <<208, 177>>, <<208, 178>>, <<208, 179>>, <<208, 180>>,
       <<208, 181>>, <<209, 145>>, <<208, 182>>, <<208, 183>>, <<208, 184>>,
       <<208, 185>>, <<208, 186>>, <<208, 187>>, <<208, 188>>, <<208, 189>>,
       <<208, 190>>, <<211, 169>>, <<208, 191>>, <<209, 128>>, <<209, 129>>,
       <<209, 130>>, <<209, 131>>, <<210, 175>>, <<209, 132>>, <<209, 133>>,
       <<209, 134>>, <<209, 135>>, <<209, 136>>, <<209, 137>>, <<209, 138>>,
       <<209, 139>>, <<209, 140>>, <<209, 141>>, <<209, 142>>, <<209, 143>> >>

\* ------------------------------------------------------------------------
\* Library functions, as the program uses them
\* ------------------------------------------------------------------------

Min(a, b) == IF a < b THEN a ELSE b

\* std::tolower in the "C" locale (the program never calls setlocale):
\* 'A'..'Z' map to 'a'..'z', every other byte is unchanged.
tolower(c) == IF c \in 65..90 THEN c + 32 ELSE c

\* std::ranges::transform(s, ..., tolower)
ToLower(s) == [k \in 1..Len(s) |-> tolower(s[k])]

\* std::string::substr(pos, n), pos 0-based: clamped to the end of s.
substr(s, pos, n) == SubSeq(s, pos + 1, Min(pos + n, Len(s)))

\* std::string::find(needle): the 0-based index of the first occurrence,
\* or -1 for npos.
find(s, needle) ==
    LET hits == { p \in 0..(Len(s) - Len(needle)) :
                     SubSeq(s, p + 1, p + Len(needle)) = needle }
    IN IF hits = {} THEN -1
       ELSE CHOOSE p \in hits : \A q \in hits : p <= q

\* std::string::replace(idx, n, r)
replace(s, idx, n, r) ==
    SubSeq(s, 1, idx) \o r \o SubSeq(s, idx + n + 1, Len(s))

\* std::string::contains(needle)
contains(s, needle) == find(s, needle) # -1

RECURSIVE split_from(_, _, _)
split_from(s, delim, start) ==
    LET ends == { e \in start..Len(s) : s[e] = delim }
    IN IF ends = {} THEN << SubSeq(s, start, Len(s)) >>
       ELSE LET end == CHOOSE e \in ends : \A f \in ends : e <= f
            IN << SubSeq(s, start, end - 1) >>
                  \o split_from(s, delim, end + 1)

\* split(s, delim): the tokens between delimiters, empty ones included.
split(s, delim) == split_from(s, delim, 1)

\* char_len without the branch of the four-byte leading byte.
char_len_three_max(c) ==
    IF c < 128 THEN 1
    ELSE IF c \in 192..223 THEN 2
    ELSE IF c \in 224..239 THEN 3
    ELSE 1

\* The byte length split_word_to_chars gives the character led by byte c.
char_len(c) ==
    IF c < 128 THEN 1                   \* (c & 0x80) == 0x00
    ELSE IF c \in 192..223 THEN 2       \* (c & 0xE0) == 0xC0
    ELSE IF c \in 224..239 THEN 3       \* (c & 0xF0) == 0xE0
    ELSE IF c \in 240..247 THEN 4       \* (c & 0xF8) == 0xF0
    ELSE 1                              \* malformed: a single byte

RECURSIVE chars_from(_, _)
chars_from(s, i) ==
    IF i >= Len(s) THEN << >>
    ELSE << substr(s, i, char_len(s[i + 1])) >>
            \o chars_from(s, i + char_len(s[i + 1]))

split_word_to_chars(s) == chars_from(s, 0)

isspace(c) == c \in 9..13 \/ c = 32

isdigit(c) == c \in 48..57

RECURSIVE skip_space(_, _)
skip_space(s, k) ==
    IF k <= Len(s) /\ isspace(s[k]) THEN skip_space(s, k + 1) ELSE k

\* The digits of s from position k on, accumulated onto acc with sign sgn;
\* "overflow" as soon as the value leaves the range of int.
RECURSIVE digits_value(_, _, _, _)
digits_value(s, k, sgn, acc) ==
    IF k > Len(s) \/ ~isdigit(s[k]) THEN [overflow |-> FALSE, val |-> acc]
    ELSE LET d == s[k] - 48
             over == IF sgn = 1
                     THEN acc > 214748364 \/ (acc = 214748364 /\ d > 7)
                     ELSE acc < -214748364 \/ (acc = -214748364 /\ d > 8)
         IN IF over THEN [overflow |-> TRUE, val |-> 0]
            ELSE digits_value(s, k + 1, sgn, acc * 10 + sgn * d)

\* std::stoi(s): leading whitespace is skipped, one sign is accepted, the
\* longest run of digits is converted and whatever follows is ignored.
\* what = "invalid_argument" (no digit) and "out_of_range" are the thrown
\* exceptions.
stoi(s) ==
    LET p == skip_space(s, 1)
        signed == p <= Len(s) /\ s[p] \in {43, 45}
        sgn == IF p <= Len(s) /\ s[p] = 45 THEN -1 ELSE 1
        q == IF signed THEN p + 1 ELSE p
    IN IF q > Len(s) \/ ~isdigit(s[q])
       THEN [what |-> "invalid_argument", val |-> 0]
       ELSE LET r == digits_value(s, q, sgn, 0)
            IN IF r.overflow THEN [what |-> "out_of_range", val |-> 0]
               ELSE [what |-> "ok", val |-> r.val]

\* The orders std::ranges::shuffle can leave a sequence in.
Shuffles(s) ==
    { [k \in 1..Len(s) |-> s[p[k]]] :
        p \in { f \in [1..Len(s) -> 1..Len(s)] :
                   \A a, b \in 1..Len(s) : f[a] = f[b] => a = b } }

\* ------------------------------------------------------------------------
\* State
\* ------------------------------------------------------------------------

VARIABLES
    pc,                     \* where control is
    lesson_type,            \* the engine main dispatches to
    lesson,                 \* the LessonEntry served
    outcome,                \* the engine's return value: "none" until it returns
    input,                  \* the line std::getline read last
    entered,                \* Hangman: the lines read so far (history)
    target,                 \* the lowercased word (Hangman, Spelling)
    target_chars,           \* split_word_to_chars of the target
    guess_chars,            \* Hangman: the guess state
    choices,                \* Multiple choice: the choice set
    i,                      \* Multiple choice: index of the distractor loop
    incorrect_word,         \* Multiple choice: the distractor being built
    amount_changes,         \* Multiple choice: substitutions still to make
    shuffled_target_chars,  \* Multiple choice: the pool of characters
    correct_choice_idx,     \* Multiple choice: the recorded correct position
    file,                   \* Loader: the lines of the file opened
    lesson_no,              \* Loader: the optional lesson filter (-1: none)
    line_no,                \* Loader: lines read so far
    result,                 \* Loader: the entries loaded so far
    eof,                    \* std::cin has reached the end of its input
    lessons,                \* main: the collection of entries loaded
    it,                     \* main: entries the range-for has passed
    served                  \* history: the entries an engine was called on

vars == << pc, lesson_type, lesson, outcome, input, entered, target,
           target_chars, guess_chars, choices, i, incorrect_word,
           amount_changes, shuffled_target_chars, correct_choice_idx,
           file, lesson_no, line_no, result, eof, lessons, it, served >>

session_vars == << target, target_chars, guess_chars >>

mc_vars == << choices, i, incorrect_word, amount_changes,
              shuffled_target_chars, correct_choice_idx >>

loader_vars == << file, lesson_no, line_no, result >>

stdin_vars == << input, entered, eof >>

main_vars == << lessons, it, served >>

LessonEntry(num, w, d, o) ==
    [lesson_number |-> num, word |-> w, description |-> d, origin_word |-> o]

\* ------------------------------------------------------------------------
\* serve_hangman_lesson
\* ------------------------------------------------------------------------

\* initial_guess_chars with a blank in every slot.
initial_guess_chars_all_blank(chars) ==
    [k \in 1..Len(chars) |-> blank_str]

\* The guess state a session starts with: one slot per character of the
\* target, " " where the target has a space and "_" elsewhere.
initial_guess_chars(chars) ==
    [k \in 1..Len(chars) |->
        IF chars[k] = space_str THEN space_str ELSE blank_str]

RECURSIVE concat(_)
concat(seq) == IF seq = << >> THEN << >> ELSE Head(seq) \o concat(Tail(seq))

get_guess_string(guess) == concat(guess)

\* The body of `if (input.empty() > 0)`: every slot whose target character
\* equals the token is set to the token.
reveal(chars, guess, token) ==
    [k \in 1..Len(guess) |-> IF chars[k] = token THEN token ELSE guess[k]]

\* The condition of the reveal block as written: input.empty() > 0, a bool
\* compared with 0.
reveal_guard(token) == (IF token = << >> THEN 1 ELSE 0) > 0

\* hangman_step without the comparison of the line with the whole target.
hangman_step_letters_only(tgt, chars, guess, line) ==
    LET token == ToLower(line)
        after == IF reveal_guard(token) THEN reveal(chars, guess, token)
                 ELSE guess
    IN IF line = << >> THEN [next |-> "continue", guess |-> guess]
       ELSE IF token = quit_str THEN [next |-> "quit", guess |-> guess]
       ELSE IF ~contains(get_guess_string(after), blank_str)
            THEN [next |-> "found", guess |-> after]
            ELSE [next |-> "continue", guess |-> after]

\* One pass of the loop body on the line read: what the body does next and
\* the guess state it leaves.
hangman_step(tgt, chars, guess, line) ==
    LET token == ToLower(line)
        after == IF reveal_guard(token) THEN reveal(chars, guess, token)
                 ELSE guess
    IN IF line = << >> THEN [next |-> "continue", guess |-> guess]
       ELSE IF token = quit_str THEN [next |-> "quit", guess |-> guess]
       ELSE IF token = tgt THEN [next |-> "found", guess |-> guess]
       ELSE IF ~contains(get_guess_string(after), blank_str)
            THEN [next |-> "found", guess |-> after]
            ELSE [next |-> "continue", guess |-> after]

HangmanStart ==
    /\ pc = "start"
    /\ lesson_type = "Hangman"
    /\ target' = ToLower(lesson.word)
    /\ target_chars' = split_word_to_chars(target')
    /\ guess_chars' = initial_guess_chars(target_chars')
    /\ pc' = "hm_while"
    /\ UNCHANGED << lesson_type, lesson, outcome, stdin_vars, mc_vars,
                    loader_vars, main_vars >>

\* The loop condition: with no "_" left the function returns true.
HangmanWhile ==
    /\ pc = "hm_while"
    /\ IF contains(get_guess_string(guess_chars), blank_str)
       THEN pc' = "prompt" /\ outcome' = outcome
       ELSE pc' = "done" /\ outcome' = "true"
    /\ UNCHANGED << lesson_type, lesson, stdin_vars, session_vars, mc_vars,
                    loader_vars, main_vars >>

HangmanRead(line) ==
    /\ pc = "prompt"
    /\ lesson_type = "Hangman"
    /\ eof => line = << >>
    /\ input' = line
    /\ entered' = entered \cup {line}
    /\ UNCHANGED eof
    /\ LET r == hangman_step(target, target_chars, guess_chars, line)
       IN /\ guess_chars' = r.guess
          /\ pc' = IF r.next = "continue" THEN "hm_while" ELSE "done"
          /\ outcome' = CASE r.next = "quit" -> "false"
                          [] r.next = "found" -> "true"
                          [] OTHER -> outcome
    /\ UNCHANGED << lesson_type, lesson, target, target_chars, mc_vars,
                    loader_vars, main_vars >>

\* ------------------------------------------------------------------------
\* serve_spelling_lesson
\* ------------------------------------------------------------------------

\* spelling_step comparing the line as typed, not lowercased.
spelling_step_as_typed(tgt, line) ==
    IF line = << >> THEN "continue"
    ELSE IF line = hint_str THEN "hint"
    ELSE IF line = quit_str THEN "quit"
    ELSE IF line = tgt THEN "correct"
    ELSE "incorrect"

\* spelling_step ending the session on a wrong answer.
spelling_step_one_attempt(tgt, line) ==
    LET answer == ToLower(line)
    IN IF line = << >> THEN "continue"
       ELSE IF answer = hint_str THEN "hint"
       ELSE IF answer = quit_str THEN "quit"
       ELSE IF answer = tgt THEN "correct"
       ELSE "quit"

\* What the loop body does with the line read.
spelling_step(tgt, line) ==
    LET answer == ToLower(line)
    IN IF line = << >> THEN "continue"
       ELSE IF answer = hint_str THEN "hint"
       ELSE IF answer = quit_str THEN "quit"
       ELSE IF answer = tgt THEN "correct"
       ELSE "incorrect"

SpellingStart ==
    /\ pc = "start"
    /\ lesson_type = "Spelling"
    /\ target' = ToLower(lesson.word)
    /\ pc' = "prompt"
    /\ UNCHANGED << lesson_type, lesson, outcome, stdin_vars, target_chars,
                    guess_chars, mc_vars, loader_vars, main_vars >>

SpellingRead(line) ==
    /\ pc = "prompt"
    /\ lesson_type = "Spelling"
    /\ eof => line = << >>
    /\ input' = line
    /\ UNCHANGED << entered, eof >>
    /\ LET r == spelling_step(target, line)
       IN /\ pc' = IF r \in {"quit", "correct"} THEN "done" ELSE "prompt"
          /\ outcome' = CASE r = "quit" -> "false"
                          [] r = "correct" -> "true"
                          [] OTHER -> outcome
    /\ UNCHANGED << lesson_type, lesson, session_vars, mc_vars, loader_vars,
                    main_vars >>

\* ------------------------------------------------------------------------
\* serve_multiple_choice_lesson
\* ------------------------------------------------------------------------

\* The letters mongolian_letters.front() can be after the shuffle.
Letters == { mongolian_letters[k] : k \in 1..MaxLetters }

\* One pass of the substitution loop once the candidate character c has
\* been taken from the pool and the letter drawn: the distractor and the
\* count of substitutions left.  No letter is drawn when the candidate is
\* skipped.
substitute(word, amount, c, new_letter) ==
    LET idx == find(word, c)
    IN IF idx = -1 \/ c = space_str THEN [word |-> word, amount |-> amount]
       ELSE IF new_letter = c THEN [word |-> word, amount |-> amount]
       ELSE [word |-> replace(word, idx, Len(c), new_letter),
             amount |-> amount - 1]

\* recorded_position keeping the loop index i, not i + 1.
recorded_position_zero_based(list, word) ==
    LET at == { k \in 1..Len(list) : list[k] = word }
    IN IF at = {} THEN -1 ELSE (CHOOSE k \in at : \A m \in at : m <= k) - 1

\* The position recorded by the display loop: the last one holding the word,
\* or the initial -1.
recorded_position(list, word) ==
    LET at == { k \in 1..Len(list) : list[k] = word }
    IN IF at = {} THEN -1 ELSE CHOOSE k \in at : \A m \in at : m <= k

\* multiple_choice_step asking again after a wrong choice.
multiple_choice_step_retry(line, correct) ==
    IF line = << >> THEN "continue"
    ELSE IF line = quit_str THEN "quit"
    ELSE LET r == stoi(line)
         IN IF r.what # "ok" THEN "not_a_number"
            ELSE IF r.val < 1 \/ r.val > 4 THEN "invalid"
            ELSE IF r.val = correct THEN "correct"
            ELSE "invalid"

\* multiple_choice_step without the test for "quit".
multiple_choice_step_no_quit(line, correct) ==
    IF line = << >> THEN "continue"
    ELSE LET r == stoi(line)
         IN IF r.what # "ok" THEN "not_a_number"
            ELSE IF r.val < 1 \/ r.val > 4 THEN "invalid"
            ELSE IF r.val = correct THEN "correct"
            ELSE "wrong"

\* What the input loop does with the line read.
multiple_choice_step(line, correct) ==
    IF line = << >> THEN "continue"
    ELSE IF line = quit_str THEN "quit"
    ELSE LET r == stoi(line)
         IN IF r.what # "ok" THEN "not_a_number"
            ELSE IF r.val < 1 \/ r.val > 4 THEN "invalid"
            ELSE IF r.val = correct THEN "correct"
            ELSE "wrong"

MultipleChoiceStart ==
    /\ pc = "start"
    /\ lesson_type = "MultipleChoice"
    /\ target_chars' = split_word_to_chars(lesson.word)
    /\ choices' = << lesson.word >>
    /\ i' = 0
    /\ pc' = "mc_for"
    /\ UNCHANGED << lesson_type, lesson, outcome, stdin_vars, target,
                    guess_chars, incorrect_word, amount_changes,
                    shuffled_target_chars, correct_choice_idx, loader_vars,
                    main_vars >>

\* A pass of the for loop begins: the count of changes is drawn from
\* [2, min(size, 4)] and the characters are shuffled.
MultipleChoiceNextDistractor ==
    /\ pc = "mc_for"
    /\ i < num_distractors
    /\ min_changes <= Min(Len(target_chars), max_changes)
    /\ incorrect_word' = lesson.word
    /\ amount_changes' \in min_changes..Min(Len(target_chars), max_changes)
    /\ shuffled_target_chars' \in Shuffles(target_chars)
    /\ pc' = "mc_while"
    /\ UNCHANGED << lesson_type, lesson, outcome, stdin_vars, session_vars,
                    choices, i, correct_choice_idx, loader_vars, main_vars >>

\* uniform_int_distribution(a, b) with a > b: the behaviour is undefined.
MultipleChoiceEmptyRange ==
    /\ pc = "mc_for"
    /\ i < num_distractors
    /\ min_changes > Min(Len(target_chars), max_changes)
    /\ pc' = "undefined"
    /\ UNCHANGED << lesson_type, lesson, outcome, stdin_vars, session_vars,
                    mc_vars, loader_vars, main_vars >>

\* The candidate is taken from the back of the pool and a letter is drawn.
\* char_to_change_str refers to the element pop_back destroyed: this is the
\* build in which the destroyed string still reads as it was.
MultipleChoiceSubstitute ==
    /\ pc = "mc_while"
    /\ amount_changes > 0
    /\ shuffled_target_chars # << >>
    /\ \E new_letter \in Letters :
         LET n == Len(shuffled_target_chars)
             char_to_change_str == shuffled_target_chars[n]
             r == substitute(incorrect_word, amount_changes,
                             char_to_change_str, new_letter)
         IN /\ shuffled_target_chars' = SubSeq(shuffled_target_chars, 1, n - 1)
            /\ incorrect_word' = r.word
            /\ amount_changes' = r.amount
    /\ UNCHANGED << pc, lesson_type, lesson, outcome, stdin_vars,
                    session_vars, choices, i, correct_choice_idx,
                    loader_vars, main_vars >>

\* The same read of the destroyed element in a build where it does not
\* read as it was: the behaviour is undefined.
MultipleChoiceDanglingRead ==
    /\ pc = "mc_while"
    /\ amount_changes > 0
    /\ shuffled_target_chars # << >>
    /\ pc' = "undefined"
    /\ UNCHANGED << lesson_type, lesson, outcome, stdin_vars, session_vars,
                    mc_vars, loader_vars, main_vars >>

\* back() and pop_back() on the exhausted pool: the behaviour is undefined.
MultipleChoicePoolExhausted ==
    /\ pc = "mc_while"
    /\ amount_changes > 0
    /\ shuffled_target_chars = << >>
    /\ pc' = "undefined"
    /\ UNCHANGED << lesson_type, lesson, outcome, stdin_vars, session_vars,
                    mc_vars, loader_vars, main_vars >>

\* The while loop ends: the distractor joins the choices.
MultipleChoicePushDistractor ==
    /\ pc = "mc_while"
    /\ amount_changes <= 0
    /\ choices' = Append(choices, incorrect_word)
    /\ i' = i + 1
    /\ pc' = "mc_for"
    /\ UNCHANGED << lesson_type, lesson, outcome, stdin_vars, session_vars,
                    incorrect_word, amount_changes, shuffled_target_chars,
                    correct_choice_idx, loader_vars, main_vars >>

\* After the for loop: the choices are shuffled and shown, and the position
\* of the word is recorded.
MultipleChoiceShowChoices ==
    /\ pc = "mc_for"
    /\ i >= num_distractors
    /\ choices' \in Shuffles(choices)
    /\ correct_choice_idx' = recorded_position(choices', lesson.word)
    /\ pc' = "prompt"
    /\ UNCHANGED << lesson_type, lesson, outcome, stdin_vars, session_vars,
                    i, incorrect_word, amount_changes, shuffled_target_chars,
                    loader_vars, main_vars >>

MultipleChoiceRead(line) ==
    /\ pc = "prompt"
    /\ lesson_type = "MultipleChoice"
    /\ eof => line = << >>
    /\ input' = line
    /\ UNCHANGED << entered, eof >>
    /\ LET r == multiple_choice_step(line, correct_choice_idx)
       IN /\ pc' = IF r \in {"quit", "correct", "wrong"} THEN "done"
                   ELSE "prompt"
          /\ outcome' = CASE r = "correct" -> "true"
                          [] r \in {"quit", "wrong"} -> "false"
                          [] OTHER -> outcome
    /\ UNCHANGED << lesson_type, lesson, session_vars, mc_vars, loader_vars,
                    main_vars >>

\* ------------------------------------------------------------------------
\* std::cin
\* ------------------------------------------------------------------------

\* The input stream ends while an engine waits at its prompt: from then on
\* std::getline fails and leaves the line empty.
EndOfInput ==
    /\ pc = "prompt"
    /\ ~eof
    /\ eof' = TRUE
    /\ UNCHANGED << pc, lesson_type, lesson, outcome, input, entered,
                    session_vars, mc_vars, loader_vars, main_vars >>

\* ------------------------------------------------------------------------
\* The sessions explored: one engine serving one entry, as main dispatches
\* ------------------------------------------------------------------------

\* Lines typed at the prompt of each engine.
Inputs(type) ==
    CASE type = "Hangman" ->
           { << >>,
             <<97>>,                        \* "a"
             <<99>>,                        \* "c"
             <<116>>,                       \* "t"
             <<65>>,                        \* "A"
             <<98>>,                        \* "b"
             <<208, 176>>,                  \* U+0430
             <<99, 97, 116>>,               \* "cat"
             <<67, 65, 84>>,                \* "CAT"
             <<113, 117, 105, 116>>,        \* "quit"
             <<81, 85, 73, 84>> }           \* "QUIT"
      [] type = "Spelling" ->
           { << >>,
             <<104, 105, 110, 116>>,        \* "hint"
             <<72, 73, 78, 84>>,            \* "HINT"
             <<113, 117, 105, 116>>,        \* "quit"
             <<81, 117, 105, 116>>,         \* "Quit"
             <<97, 112, 112, 108, 101>>,    \* "apple"
             <<65, 80, 80, 76, 69>>,        \* "APPLE"
             <<99, 97, 116>>,               \* "cat"
             <<120>> }                      \* "x"
      [] type = "MultipleChoice" ->
           { << >>,
             <<113, 117, 105, 116>>,        \* "quit"
             <<49>>, <<50>>, <<51>>, <<52>>,    \* "1" "2" "3" "4"
             <<53>>,                        \* "5"
             <<50, 120>>,                   \* "2x"
             <<120>> }                      \* "x"

\* Words of the entries served by each engine.
Words(type) ==
    CASE type = "Hangman" ->
           { <<99, 97, 116>>,               \* "cat"
             <<67, 97, 116>>,               \* "Cat"
             <<97, 97>>,                    \* "aa"
             <<97, 32, 98>>,                \* "a b"
             <<208, 176, 208, 177>>,        \* U+0430 U+0431
             <<81, 117, 105, 116>>,         \* "Quit"
             << >> }
      [] type = "Spelling" ->
           { <<65, 112, 112, 108, 101>>,    \* "Apple"
             <<99, 97, 116>>,               \* "cat"
             <<72, 105, 110, 116>>,         \* "Hint"
             <<113, 117, 105, 116>>,        \* "quit"
             << >> }
      [] type = "MultipleChoice" ->
           { <<97, 98>>,                    \* "ab"
             <<208, 176, 208, 177>>,        \* U+0430 U+0431
             <<97, 32, 98>>,                \* "a b"
             <<97>>,                        \* "a"
             << >> }

LessonTypes == {"Spelling", "MultipleChoice", "Hangman"}

Init ==
    /\ pc = "start"
    /\ lesson_type \in LessonTypes
    /\ lesson \in { LessonEntry(1, w, <<102, 114, 117, 105, 116>>,
                                <<97, 108, 105, 109>>) : w \in Words(lesson_type) }
    /\ outcome = "none"
    /\ input = << >>
    /\ entered = {}
    /\ target = << >>
    /\ target_chars = << >>
    /\ guess_chars = << >>
    /\ choices = << >>
    /\ i = 0
    /\ incorrect_word = << >>
    /\ amount_changes = 0
    /\ shuffled_target_chars = << >>
    /\ correct_choice_idx = -1
    /\ file = << >>
    /\ lesson_no = -1
    /\ line_no = 0
    /\ result = << >>
    /\ eof = FALSE
    /\ lessons = << >>
    /\ it = 0
    /\ served = << >>

Next ==
    \/ HangmanStart
    \/ HangmanWhile
    \/ \E line \in Inputs("Hangman") : HangmanRead(line)
    \/ SpellingStart
    \/ \E line \in Inputs("Spelling") : SpellingRead(line)
    \/ MultipleChoiceStart
    \/ MultipleChoiceNextDistractor
    \/ MultipleChoiceEmptyRange
    \/ MultipleChoiceSubstitute
    \/ MultipleChoiceDanglingRead
    \/ MultipleChoicePoolExhausted
    \/ MultipleChoicePushDistractor
    \/ MultipleChoiceShowChoices
    \/ \E line \in Inputs("MultipleChoice") : MultipleChoiceRead(line)
    \/ EndOfInput

Spec == Init /\ [][Next]_vars

\* The program is one thread that never pauses of its own accord: while a
\* step that changes the state is possible, one is taken.
SpecFair == Spec /\ WF_vars(Next)

\* ------------------------------------------------------------------------
\* read_lesson_from_file
\* ------------------------------------------------------------------------

\* std::optional<uint8_t>: << >> is nullopt, << n >> holds n.
has_value(opt) == opt # << >>

value(opt) == opt[1]

\* The exception of std::stoi left uncaught.
catch_exception_missing(what) == "throw"

\* The catch clause around std::stoi: the exception is reported and the
\* loop goes on to the next line.
catch_exception(what) == "continue"

\* The loop body on one line: what becomes of the line, the entry it adds
\* (if any) and how the loop goes on.
load_line(line, filter) ==
    LET words == split(line, delimiter)
        none == LessonEntry(0, << >>, << >>, << >>)
    IN IF Len(words) < 4
       THEN [what |-> "invalid_format", entry |-> none, next |-> "continue"]
       ELSE LET r == stoi(words[1])
            IN IF r.what # "ok"
               THEN [what |-> r.what, entry |-> none,
                     next |-> catch_exception(r.what)]
               ELSE IF r.val < 0 \/ r.val > max_lesson_number
               THEN [what |-> "invalid_number", entry |-> none,
                     next |-> "continue"]
               ELSE IF has_value(filter) /\ r.val # value(filter)
               THEN [what |-> "filtered", entry |-> none, next |-> "continue"]
               ELSE [what |-> "entry",
                     entry |-> LessonEntry(r.val, words[2], words[3], words[4]),
                     next |-> "continue"]

\* std::getline yields the next line and the loop body runs on it.
LoadLine ==
    /\ pc = "load"
    /\ line_no < Len(file)
    /\ LET r == load_line(file[line_no + 1], lesson_no)
       IN /\ result' = IF r.what = "entry" THEN Append(result, r.entry)
                       ELSE result
          /\ pc' = IF r.next = "continue" THEN "load" ELSE "terminate"
    /\ line_no' = line_no + 1
    /\ UNCHANGED << lesson_type, lesson, outcome, stdin_vars, session_vars,
                    mc_vars, file, lesson_no, main_vars >>

\* std::getline fails at the end of the file: result is returned.
LoadReturn ==
    /\ pc = "load"
    /\ line_no = Len(file)
    /\ pc' = "loaded"
    /\ UNCHANGED << lesson_type, lesson, outcome, stdin_vars, session_vars,
                    mc_vars, loader_vars, main_vars >>

\* Lines of the lesson files explored.
Lines ==
    { <<49, 59, 97, 112, 112, 108, 101, 59, 102, 114, 117, 105, 116, 59,
        97, 108, 105, 109>>,                    \* "1;apple;fruit;alim"
      <<98, 97, 100, 59, 108, 105, 110, 101>>,  \* "bad;line"
      <<50, 59, 116, 114, 101, 101, 59, 112, 108, 97, 110, 116, 59, 109,
        111, 100>>,                             \* "2;tree;plant;mod"
      <<49, 120, 59, 99, 97, 116, 59, 112, 101, 116, 59, 109, 117, 115>>,
                                                \* "1x;cat;pet;mus"
      <<50, 53, 54, 59, 97, 59, 98, 59, 99>>,   \* "256;a;b;c"
      <<49, 59, 59, 100, 59, 111>>,             \* "1;;d;o"
      <<50, 59, 97, 98, 59, 99, 59, 100, 59, 101>>,     \* "2;ab;c;d;e"
      <<120, 59, 97, 59, 98, 59, 99>>,          \* "x;a;b;c"
      <<57, 57, 57, 57, 57, 57, 57, 57, 57, 57, 57, 59, 97, 59, 98, 59,
        99>> }                                  \* "99999999999;a;b;c"

Files == UNION { [1..n -> Lines] : n \in 0..MaxLines }

Filters == { << >>, <<1>>, <<2>> }

InitLoad ==
    /\ pc = "load"
    /\ file \in Files
    /\ lesson_no \in Filters
    /\ line_no = 0
    /\ result = << >>
    /\ lesson_type = "Random"
    /\ lesson = LessonEntry(0, << >>, << >>, << >>)
    /\ outcome = "none"
    /\ input = << >>
    /\ entered = {}
    /\ target = << >>
    /\ target_chars = << >>
    /\ guess_chars = << >>
    /\ choices = << >>
    /\ i = 0
    /\ incorrect_word = << >>
    /\ amount_changes = 0
    /\ shuffled_target_chars = << >>
    /\ correct_choice_idx = -1
    /\ eof = FALSE
    /\ lessons = << >>
    /\ it = 0
    /\ served = << >>

NextLoad ==
    \/ LoadLine
    \/ LoadReturn

SpecLoad == InitLoad /\ [][NextLoad]_vars

\* ------------------------------------------------------------------------
\* split_word_to_chars on its own
\* ------------------------------------------------------------------------

\* One call, as in `auto target_chars = split_word_to_chars(target);`.
SplitWordToChars ==
    /\ pc = "split"
    /\ target_chars' = split_word_to_chars(target)
    /\ pc' = "split_done"
    /\ UNCHANGED << lesson_type, lesson, outcome, stdin_vars, target,
                    guess_chars, mc_vars, loader_vars, main_vars >>

\* Bytes of every class the function tells apart: ASCII, a continuation
\* byte, the leading bytes of 2, 3 and 4 byte characters, and a byte that
\* matches no pattern.
Bytes == {97, 176, 208, 226, 240, 255}

ByteStrings == UNION { [1..n -> Bytes] : n \in 0..MaxBytes }

InitSplit ==
    /\ pc = "split"
    /\ target \in ByteStrings
    /\ target_chars = << >>
    /\ lesson_type = "Hangman"
    /\ lesson = LessonEntry(0, << >>, << >>, << >>)
    /\ outcome = "none"
    /\ input = << >>
    /\ entered = {}
    /\ guess_chars = << >>
    /\ choices = << >>
    /\ i = 0
    /\ incorrect_word = << >>
    /\ amount_changes = 0
    /\ shuffled_target_chars = << >>
    /\ correct_choice_idx = -1
    /\ file = << >>
    /\ lesson_no = -1
    /\ line_no = 0
    /\ result = << >>
    /\ eof = FALSE
    /\ lessons = << >>
    /\ it = 0
    /\ served = << >>

NextSplit == SplitWordToChars

SpecSplit == InitSplit /\ [][NextSplit]_vars

\* ------------------------------------------------------------------------
\* main: load, shuffle, dispatch
\* ------------------------------------------------------------------------

\* The switch on lesson_type with every engine in the range-for.
entries_to_serve_all(type, all) == all

\* The entries the switch on lesson_type calls an engine on, in order:
\* the range-for over lessons for Spelling, lessons.front() otherwise.
entries_to_serve(type, all) ==
    IF type = "Spelling" THEN all ELSE << all[1] >>

\* `if (lessons.empty())`: main returns 1.
MainNoLessons ==
    /\ pc = "loaded"
    /\ result = << >>
    /\ pc' = "return_1"
    /\ UNCHANGED << lesson_type, lesson, outcome, stdin_vars, session_vars,
                    mc_vars, loader_vars, main_vars >>

\* The entries returned become lessons (the loader's locals are gone) and
\* std::ranges::shuffle reorders them.
MainShuffle ==
    /\ pc = "loaded"
    /\ result # << >>
    /\ lessons' \in Shuffles(result)
    /\ file' = << >>
    /\ line_no' = 0
    /\ result' = << >>
    /\ pc' = "dispatch"
    /\ UNCHANGED << lesson_type, lesson, outcome, stdin_vars, session_vars,
                    mc_vars, lesson_no, it, served >>

\* The next engine call of the switch, or `return 0` after the last one.
MainServe ==
    /\ pc = "dispatch"
    /\ LET todo == entries_to_serve(lesson_type, lessons)
       IN IF it < Len(todo)
          THEN /\ lesson' = todo[it + 1]
               /\ served' = Append(served, [entry |-> todo[it + 1],
                                            returned |-> "none"])
               /\ pc' = "start"
          ELSE /\ pc' = "return_0"
               /\ UNCHANGED << lesson, served >>
    /\ UNCHANGED << lesson_type, outcome, stdin_vars, session_vars, mc_vars,
                    loader_vars, lessons, it >>

\* The engine has returned: its locals are gone, main discards the value
\* returned and goes on.
MainReturn ==
    /\ pc = "done"
    /\ served' = [served EXCEPT ![Len(served)].returned = outcome]
    /\ it' = it + 1
    /\ outcome' = "none"
    /\ input' = << >>
    /\ target' = << >>
    /\ target_chars' = << >>
    /\ guess_chars' = << >>
    /\ choices' = << >>
    /\ i' = 0
    /\ incorrect_word' = << >>
    /\ amount_changes' = 0
    /\ shuffled_target_chars' = << >>
    /\ correct_choice_idx' = -1
    /\ pc' = "dispatch"
    /\ UNCHANGED << lesson_type, lesson, entered, eof, loader_vars, lessons >>

\* Lines of the lesson files main is run on.
MainLines ==
    { <<49, 59, 208, 176, 208, 177, 59, 99, 59, 100>>,
                                                \* "1;<U+0430 U+0431>;c;d"
      <<50, 59, 97, 59, 98, 59, 99>> }          \* "2;a;b;c"

\* Lines typed at the prompts of the engines main calls.
MainInputs ==
    { << >>,
      <<113, 117, 105, 116>>,       \* "quit"
      <<97>>,                       \* "a"
      <<208, 176, 208, 177>>,       \* U+0430 U+0431
      <<49>>,                       \* "1"
      <<52>> }                      \* "4"

MainFiles == UNION { [1..n -> MainLines] : n \in 0..MaxLessons }

\* main at the call of read_lesson_from_file, lesson_type already settled.
InitMain ==
    /\ pc = "load"
    /\ file \in MainFiles
    /\ lesson_no \in Filters
    /\ line_no = 0
    /\ result = << >>
    /\ lesson_type \in LessonTypes
    /\ lesson = LessonEntry(0, << >>, << >>, << >>)
    /\ outcome = "none"
    /\ input = << >>
    /\ entered = {}
    /\ target = << >>
    /\ target_chars = << >>
    /\ guess_chars = << >>
    /\ choices = << >>
    /\ i = 0
    /\ incorrect_word = << >>
    /\ amount_changes = 0
    /\ shuffled_target_chars = << >>
    /\ correct_choice_idx = -1
    /\ eof = FALSE
    /\ lessons = << >>
    /\ it = 0
    /\ served = << >>

NextMain ==
    \/ LoadLine
    \/ LoadReturn
    \/ MainNoLessons
    \/ MainShuffle
    \/ MainServe
    \/ MainReturn
    \/ HangmanStart
    \/ HangmanWhile
    \/ \E line \in MainInputs : HangmanRead(line)
    \/ SpellingStart
    \/ \E line \in MainInputs : SpellingRead(line)
    \/ MultipleChoiceStart
    \/ MultipleChoiceNextDistractor
    \/ MultipleChoiceEmptyRange
    \/ MultipleChoiceSubstitute
    \/ MultipleChoiceDanglingRead
    \/ MultipleChoicePoolExhausted
    \/ MultipleChoicePushDistractor
    \/ MultipleChoiceShowChoices
    \/ \E line \in MainInputs : MultipleChoiceRead(line)
    \/ EndOfInput

SpecMain == InitMain /\ [][NextMain]_vars

\* ------------------------------------------------------------------------
\* Properties
\* ------------------------------------------------------------------------

\* C1: in a Hangman session, an input line that is non-empty, is not "quit"
\* and is not the full target word reveals, in that step, every slot whose
\* target character equals the lowercased input and leaves every other slot
\* unchanged.
C1_GuessRevealsMatchingSlots ==
    [][ ( /\ lesson_type = "Hangman"
          /\ pc = "prompt"
          /\ pc' # "prompt"
          /\ input' # << >>
          /\ ToLower(input') # quit_str
          /\ ToLower(input') # target )
        => guess_chars' =
             [k \in 1..Len(guess_chars) |->
                IF target_chars[k] = ToLower(input') THEN ToLower(input')
                ELSE guess_chars[k]] ]_vars

Range(s) == { s[k] : k \in 1..Len(s) }

\* The lines entered so far hold every distinct non-space character of the
\* target, and none of them is "quit" or the full word.
EveryCharacterEntered ==
    /\ \A c \in Range(target_chars) \ {space_str} : c \in entered
    /\ \A e \in entered : ToLower(e) # quit_str /\ ToLower(e) # target

\* C2: a Hangman session in which every distinct non-space character of the
\* target has been entered (and neither "quit" nor the full word) has ended
\* with the success outcome: it is not prompting again.
C2_AllCharactersEnteredSucceeds ==
    ( /\ lesson_type = "Hangman"
      /\ pc \in {"prompt", "done"}
      /\ EveryCharacterEntered )
    => (pc = "done" /\ outcome = "true")

\* C3: every distractor generated for a multiple-choice session differs from
\* the correct word.  (Until the choices are shuffled, choices[1] is the
\* word and the distractors follow it.)
C3_DistractorDiffersFromWord ==
    ( lesson_type = "MultipleChoice" /\ pc \in {"mc_for", "mc_while"} )
    => \A k \in 2..Len(choices) : choices[k] # lesson.word

\* The number of character positions at which the words a and b differ.
DifferingPositions(a, b) ==
    LET x == split_word_to_chars(a)
        y == split_word_to_chars(b)
        n == IF Len(x) > Len(y) THEN Len(x) ELSE Len(y)
    IN Cardinality({ k \in 1..n :
                        k > Len(x) \/ k > Len(y) \/ x[k] # y[k] })

\* C4: for a word of at least 2 characters, every distractor differs from
\* the word at no fewer than 2 and no more than min(4, character count)
\* character positions.
C4_DistractorDiffersAtTwoToFourPositions ==
    ( /\ lesson_type = "MultipleChoice"
      /\ pc \in {"mc_for", "mc_while"}
      /\ Len(target_chars) >= 2 )
    => \A k \in 2..Len(choices) :
          DifferingPositions(choices[k], lesson.word)
             \in 2..Min(4, Len(target_chars))

\* C5, as stated: in a Spelling session, an input line whose lowercased form
\* equals the lowercased word ends the session with the success outcome.
C5_MatchingAnswerSucceeds ==
    [][ ( /\ lesson_type = "Spelling"
          /\ pc = "prompt"
          /\ ToLower(input') = ToLower(lesson.word) )
        => (pc' = "done" /\ outcome' = "true") ]_vars

\* C5, amended: in a Spelling session, a non-empty input line whose
\* lowercased form equals the lowercased word and is neither "hint" nor
\* "quit" ends the session with the success outcome, at any prompt.
C5_MatchingAnswerSucceedsUnlessCommand ==
    [][ ( /\ lesson_type = "Spelling"
          /\ pc = "prompt"
          /\ input' # << >>
          /\ ToLower(input') = ToLower(lesson.word)
          /\ ToLower(input') \notin {hint_str, quit_str} )
        => (pc' = "done" /\ outcome' = "true") ]_vars

\* "APPLE" has been accepted as the spelling of "Apple".
C5_Witness ==
    /\ lesson_type = "Spelling"
    /\ pc = "done"
    /\ outcome = "true"
    /\ lesson.word = <<65, 112, 112, 108, 101>>
    /\ input = <<65, 80, 80, 76, 69>>

\* The line is a decimal numeral.
IsNumeral(s) == s # << >> /\ \A k \in 1..Len(s) : s[k] \in 48..57

RECURSIVE NumeralValue(_)
NumeralValue(s) ==
    IF s = << >> THEN 0
    ELSE 10 * NumeralValue(SubSeq(s, 1, Len(s) - 1)) + (s[Len(s)] - 48)

\* C6: multiple-choice scoring is one-shot.  The input of a number in
\* [1,4] ends the session, with success if and only if it is the recorded
\* correct position; an ended session reads nothing more.
C6_OneShotScoring ==
    /\ [][ ( /\ lesson_type = "MultipleChoice"
             /\ pc = "prompt"
             /\ IsNumeral(input')
             /\ NumeralValue(input') \in 1..4 )
           => ( /\ pc' = "done"
                /\ outcome' = IF NumeralValue(input') = correct_choice_idx
                              THEN "true" ELSE "false" ) ]_vars
    /\ [][ pc = "done" => UNCHANGED << pc, outcome, input >> ]_vars

\* A valid but wrong choice has ended the session with failure.
C6_Witness ==
    /\ lesson_type = "MultipleChoice"
    /\ pc = "done"
    /\ input = <<50>>
    /\ correct_choice_idx \in {1, 3, 4}
    /\ outcome = "false"

\* What the claims take for a well-formed field 0: an integer written in
\* decimal digits, with an optional sign.
IsInteger(f) ==
    LET body == IF f # << >> /\ f[1] \in {43, 45} THEN Tail(f) ELSE f
    IN IsNumeral(body)

\* Field 0 is an integer in [0,255].
IsLessonNumber(f) ==
    /\ IsInteger(f)
    /\ stoi(f).what = "ok"
    /\ stoi(f).val \in 0..255

\* The line has at least 4 fields, field 0 is an integer in [0,255] and
\* equals the filter, if one is set.
Selected(line, filter) ==
    LET fields == split(line, delimiter)
    IN /\ Len(fields) >= 4
       /\ IsLessonNumber(fields[1])
       /\ has_value(filter) => stoi(fields[1]).val = value(filter)

EntryOf(line) ==
    LET fields == split(line, delimiter)
    IN LessonEntry(stoi(fields[1]).val, fields[2], fields[3], fields[4])

\* One entry per selected line, in file order.
RECURSIVE ExpectedEntries(_, _)
ExpectedEntries(rest, filter) ==
    IF rest = << >> THEN << >>
    ELSE (IF Selected(Head(rest), filter) THEN << EntryOf(Head(rest)) >>
          ELSE << >>) \o ExpectedEntries(Tail(rest), filter)

\* C7: load returns exactly one entry per line that has at least 4 fields,
\* whose field 0 is an integer in [0,255] and equals the filter when one is
\* set; the entries are in file order and carry fields 1, 2, 3 verbatim.
C7_LoadReturnsSelectedLines ==
    pc = "loaded" => result = ExpectedEntries(file, lesson_no)

\* The line is malformed for the loader: fewer than 4 fields, or a field 0
\* that std::stoi fails to parse or whose value lies outside [0,255].
Malformed(line) ==
    LET fields == split(line, delimiter)
    IN \/ Len(fields) < 4
       \/ stoi(fields[1]).what # "ok"
       \/ stoi(fields[1]).val \notin 0..255

\* The line passes the filter.
PassesFilter(line) ==
    has_value(lesson_no)
       => stoi(split(line, delimiter)[1]).val = value(lesson_no)

C9_LoadedWordNonEmpty ==
    pc = "loaded" => \A k \in 1..Len(result) : result[k].word # << >>

\* C10: in each engine, the input line "quit" at a prompt ends the session
\* with the failure outcome, and an ended session reads nothing more.
C10_QuitEndsSessionWithFailure ==
    /\ [][ (pc = "prompt" /\ input' = quit_str)
           => (pc' = "done" /\ outcome' = "false") ]_vars
    /\ [][ pc = "done" => UNCHANGED << input, entered >> ]_vars

\* A Hangman session has ended with failure on "quit", entered after
\* another line.
C10_Witness ==
    /\ lesson_type = "Hangman"
    /\ pc = "done"
    /\ input = quit_str
    /\ outcome = "false"
    /\ Cardinality(entered) >= 2

\* C11 (as stated): in a Hangman session, for every lesson entry, a line
\* read at the prompt whose lowercased form equals the lowercased word ends
\* the session at once with the success outcome, whatever the guess state.
C11_FullWordSucceeds ==
    [][(/\ lesson_type = "Hangman"
        /\ pc = "prompt"
        /\ pc' # "prompt"
        /\ ToLower(input') = ToLower(lesson.word))
       => (pc' = "done" /\ outcome' = "true")]_vars

\* C11 (amended): in a Hangman session, a line read at the prompt whose
\* lowercased form equals the lowercased word and is not "quit" ends the
\* session at once with the success outcome, whatever the guess state and
\* whatever was entered before.
C11_FullWordSucceedsUnlessQuit ==
    [][(/\ lesson_type = "Hangman"
        /\ pc = "prompt"
        /\ pc' # "prompt"
        /\ ToLower(input') = ToLower(lesson.word)
        /\ ToLower(input') # quit_str)
       => (/\ pc' = "done"
           /\ outcome' = "true"
           /\ guess_chars' = guess_chars)]_vars

\* A session on "cat" ended with success by "CAT" after other lines, with
\* blanks still in the guess state.
C11_Witness ==
    /\ lesson_type = "Hangman"
    /\ pc = "done"
    /\ outcome = "true"
    /\ input = <<67, 65, 84>>
    /\ ToLower(input) = ToLower(lesson.word)
    /\ Cardinality(entered) >= 3
    /\ contains(get_guess_string(guess_chars), blank_str)

\* The length the encoding gives a character by its leading byte; 0 for a
\* byte that is not a leading byte.
LeadingLength(b) ==
    CASE b \in 0..127 -> 1
      [] b \in 192..223 -> 2
      [] b \in 224..239 -> 3
      [] b \in 240..247 -> 4
      [] OTHER -> 0

IsContinuation(b) == b \in 128..191

\* The number of characters of a validly encoded string, -1 for a string
\* that is not validly encoded.
RECURSIVE CharacterCount(_)
CharacterCount(s) ==
    IF s = << >> THEN 0
    ELSE LET n == LeadingLength(s[1])
         IN IF \/ n = 0
               \/ n > Len(s)
               \/ \E k \in 2..n : ~IsContinuation(s[k])
            THEN -1
            ELSE LET r == CharacterCount(SubSeq(s, n + 1, Len(s)))
                 IN IF r = -1 THEN -1 ELSE r + 1

\* C12: the segments split_word_to_chars returns concatenate to its input;
\* none is empty; a validly encoded string of N characters gives exactly N
\* segments, each of the 1 to 4 bytes its leading byte announces; and a
\* byte that is not a leading byte is a segment of one byte.
C12_SegmentsReconstructInput ==
    pc = "split_done" =>
        /\ concat(target_chars) = target
        /\ \A k \in 1..Len(target_chars) : target_chars[k] # << >>
        /\ CharacterCount(target) >= 0 =>
              /\ Len(target_chars) = CharacterCount(target)
              /\ \A k \in 1..Len(target_chars) :
                    /\ Len(target_chars[k]) \in 1..4
                    /\ Len(target_chars[k]) = LeadingLength(target_chars[k][1])
        /\ \A k \in 1..Len(target_chars) :
              LeadingLength(target_chars[k][1]) = 0 => Len(target_chars[k]) = 1

\* A validly encoded string of one 4-byte character, returned as one
\* segment of four bytes.
C12_Witness ==
    /\ pc = "split_done"
    /\ target = <<240, 176, 176, 176>>
    /\ target_chars = << target >>

\* The entries of the shuffled collection main is to call an engine on.
Expected ==
    IF lesson_type = "Spelling" \/ lessons = << >> THEN lessons
    ELSE << lessons[1] >>

\* C13: in Spelling mode main runs the engine exactly once on every entry
\* of the shuffled collection, in sequence, and an entry that ends with
\* failure does not stop the remaining ones; in Multiple-Choice and Hangman
\* modes it runs the engine exactly once, on the first entry only.
C13_HostDispatch ==
    /\ [](/\ Len(served) <= Len(Expected)
          /\ \A k \in 1..Len(served) : served[k].entry = Expected[k]
          /\ pc = "return_0" =>
                /\ Len(served) = Len(Expected)
                /\ \A k \in 1..Len(served) : served[k].returned # "none")
    /\ [][(pc = "done" /\ Len(served) < Len(Expected))
           => (pc' = "dispatch" /\ it' = Len(served))]_vars
    /\ [][(pc = "dispatch" /\ Len(served) < Len(Expected))
           => (/\ pc' = "start"
               /\ lesson' = Expected[Len(served) + 1]
               /\ Len(served') = Len(served) + 1)]_vars

\* Spelling over two entries: the first ended with failure, the second
\* was served all the same and ended with success.
C13_Witness ==
    /\ lesson_type = "Spelling"
    /\ pc = "return_0"
    /\ Len(lessons) = 2
    /\ Len(served) = 2
    /\ served[1].returned = "false"
    /\ served[2].returned = "true"

\* C14: in every Multiple-Choice session that reaches the prompt the choice
\* set has exactly 4 entries and the recorded correct position is a value in
\* 1..4 whose entry equals the lesson's word; it never stays at -1.
C14_CorrectPositionRecorded ==
    (lesson_type = "MultipleChoice" /\ pc \in {"prompt", "done"}) =>
        /\ Len(choices) = 4
        /\ correct_choice_idx \in 1..4
        /\ choices[correct_choice_idx] = lesson.word

\* A session at the prompt whose word was shuffled to the third position.
C14_Witness ==
    /\ lesson_type = "MultipleChoice"
    /\ pc = "prompt"
    /\ Len(choices) = 4
    /\ correct_choice_idx = 3
    /\ choices[3] = lesson.word
    /\ \A k \in {1, 2, 4} : choices[k] # lesson.word

\* C15: in a Hangman session the guess state has one slot per segmented
\* character of the lowercased word; at the start each slot is "_", or " "
\* where the target character is a space; afterwards each slot is "_" or
\* equal to the target character at that position; and a slot that is
\* revealed never goes back to "_".
C15_GuessStateInvariant ==
    /\ []((lesson_type = "Hangman" /\ pc \in {"hm_while", "prompt", "done"}) =>
            /\ target_chars = split_word_to_chars(ToLower(lesson.word))
            /\ Len(guess_chars) = Len(target_chars)
            /\ \A k \in 1..Len(guess_chars) :
                  \/ guess_chars[k] = blank_str
                  \/ guess_chars[k] = target_chars[k]
            /\ entered = {} =>
                  \A k \in 1..Len(guess_chars) :
                     guess_chars[k] = IF target_chars[k] = space_str
                                      THEN space_str ELSE blank_str)
    /\ [][(lesson_type = "Hangman" /\ pc \in {"hm_while", "prompt"}) =>
            /\ Len(guess_chars') = Len(guess_chars)
            /\ \A k \in 1..Len(guess_chars) :
                  guess_chars[k] # blank_str => guess_chars'[k] = guess_chars[k]
          ]_vars

\* A session on "a b" at the prompt after several lines: three slots, the
\* space revealed from the start.
C15_Witness ==
    /\ lesson_type = "Hangman"
    /\ pc = "prompt"
    /\ Cardinality(entered) >= 2
    /\ target_chars = << <<97>>, <<32>>, <<98>> >>
    /\ guess_chars = << blank_str, space_str, blank_str >>

\* C16: a Spelling session ends in two ways only: with failure after a line
\* that lowercases to "quit", with success after a line that lowercases to
\* the target. A hint request or a wrong answer, however many, leaves the
\* session at its prompt with no outcome.
C16_SpellingTerminalTransitions ==
    /\ [](lesson_type = "Spelling" =>
            /\ pc = "done" <=> outcome # "none"
            /\ outcome = "false" => ToLower(input) = quit_str
            /\ outcome = "true" => ToLower(input) = ToLower(lesson.word))
    /\ [][(/\ lesson_type = "Spelling"
            /\ pc = "prompt"
            /\ \/ ToLower(input') = hint_str
               \/ ToLower(input') \notin {quit_str, ToLower(lesson.word)})
           => (pc' = "prompt" /\ outcome' = "none")]_vars

\* A wrong answer has left the session at its prompt.
C16_Witness ==
    /\ lesson_type = "Spelling"
    /\ pc = "prompt"
    /\ input = <<120>>
    /\ outcome = "none"

\* A line that is no answer: the empty line in every engine and, in
\* Multiple choice, a line other than the quit command that is not a
\* number or is a number outside [1,4].
InputError(type, line) ==
    \/ line = << >>
    \/ /\ type = "MultipleChoice"
       /\ line # quit_str
       /\ \/ ~IsInteger(line)
          \/ stoi(line).what # "ok"
          \/ stoi(line).val \notin 1..4

\* C17: a line read at the prompt that is empty, in every engine, or that
\* is non-numeric or a number outside [1,4], in Multiple choice, leaves the
\* guess state, the choice set and the correct position unchanged, gives no
\* outcome, and the engine prompts again.
C17_InputErrorsChangeNothing ==
    [][(pc = "prompt" /\ InputError(lesson_type, input'))
       => (/\ guess_chars' = guess_chars
           /\ choices' = choices
           /\ correct_choice_idx' = correct_choice_idx
           /\ outcome' = "none"
           /\ \/ pc' = "prompt"
              \/ /\ pc' = "hm_while"
                 /\ contains(get_guess_string(guess_chars'), blank_str))]_vars

\* C18: for a word of at least 2 characters, the substitution loop never
\* draws a candidate from an exhausted pool: while substitutions remain to
\* be made the pool is not empty, each pass makes at most one, and the loop
\* ends when exactly the k drawn have been made.
C18_PoolNeverExhausted ==
    /\ []((/\ lesson_type = "MultipleChoice"
           /\ pc = "mc_while"
           /\ Len(target_chars) >= 2) =>
            /\ amount_changes >= 0
            /\ amount_changes > 0 => shuffled_target_chars # << >>)
    /\ [][(/\ lesson_type = "MultipleChoice"
            /\ pc = "mc_while"
            /\ pc' = "mc_while"
            /\ Len(target_chars) >= 2)
           => amount_changes' \in {amount_changes, amount_changes - 1}]_vars

\* C19: for every entry the loader produces and main hands to the
\* Multiple-Choice engine, the range [2, min(4, character count)] the count
\* of substitutions is drawn from is not empty: the word has at least 2
\* segmented characters.
C19_SubstitutionRangeNonEmpty ==
    (lesson_type = "MultipleChoice" /\ pc = "mc_for") =>
        /\ Len(split_word_to_chars(lesson.word)) >= 2
        /\ 2..Min(4, Len(target_chars)) # {}

\* C20: once std::cin is at its end, so that every read gives an empty
\* line, the session of each engine reaches a terminal outcome; it does not
\* prompt again for ever.
C20_TerminatesAtEndOfInput ==
    (eof /\ pc = "prompt") ~> (pc = "done")

====
